---- MODULE Spec2Model ----
(***************************************************************************)
(* The two analysis pipelines of the repository as one state machine:      *)
(*   analyze.py               DataAnalyzer (pandas)       prog = "analyze"   *)
(*   create_visualizations.py plain csv + numpy           prog = "visualize" *)
(* A run is: load, CPU-vs-viewers chart, latency-vs-loss chart,            *)
(* legibility-vs-bandwidth chart, summary statistics, exit.                *)
(*                                                                         *)
(* Encoding of cells.  Numeric cells are naturals; packetLoss is held in   *)
(* percent (0 is the text "0", 5 is the text "0.05").  NonNumeric is a     *)
(* cell whose text is no number, NaN an empty cell (pandas reads it as     *)
(* NaN).  A mean is the pair [sum, n] of the floating-point sum and the    *)
(* count it is divided by; n = 0 is the float nan.                         *)
(***************************************************************************)
EXTENDS Integers, Sequences, FiniteSets, TLC

VARIABLES prog, csvExists, jsonExists, input,
          pc, readFrom, loaded, data, files, truncated, skipped,
          cpuAgg, latencyAgg, tlsAgg, tlsBars, summary, exitCode,
          resultsDirExists, vizDirExists, created, raised

inputVars == <<prog, csvExists, jsonExists, input>>
vars == <<prog, csvExists, jsonExists, input, pc, readFrom, loaded, data, files,
          truncated, skipped, cpuAgg, latencyAgg, tlsAgg, tlsBars, summary,
          exitCode, resultsDirExists, vizDirExists, created, raised>>

(* Bounds of the model *)
MaxRecs == 2
MaxTlsRecs == 4
MaxRoundRecs == 3
(* significant bits of a floating-point number (53 in a float64) *)
MantissaBits == 10

NonNumeric == -1
NaN == -2

NumericCols == {"numViewers", "packetLoss", "avgLatency", "avgCpu", "avgTls"}

CPU_PNG == "cpu_utilization.png"
LATENCY_PNG == "latency_vs_loss.png"
TLS_PNG == "tls_vs_bandwidth.png"
SUMMARY_JSON == "summary_statistics.json"

(***************************************************************************)
(* Input records: one test result, as save_sample_data serialises it to    *)
(* results.json and results.csv.                                           *)
(***************************************************************************)
Rec(a, v, l, b, s, m, lat, cpu, tls) ==
  [architecture |-> a, numViewers |-> v, packetLoss |-> l, bandwidth |-> b,
   success |-> s, metrics |-> m, avgLatency |-> lat, avgCpu |-> cpu,
   avgTls |-> tls]

Bandwidths == {"1mbit", "2mbit", "5mbit"}

MetricSamples == {[lat |-> 100, cpu |-> 20, tls |-> 1],
                  [lat |-> 150, cpu |-> 30, tls |-> 3]}

(* base_tls (in hundredths) plus the architecture's share *)
SampleTls(a, b) ==
  (CASE b = "5mbit" -> 5 [] b = "2mbit" -> 12 [] OTHER -> 25)
  + (IF a = "P2P" THEN 2 ELSE 1)

(* records that differ in the success flag and the metrics block *)
RecsFlags ==
  {Rec(a, 5, 0, "5mbit", s, m, 100, 20, 1) :
     a \in {"p2p", "sfu"}, s \in BOOLEAN, m \in BOOLEAN}

(* successful records over the experimental dimensions *)
RecsDims ==
  {Rec(a, v, l, "5mbit", TRUE, TRUE, mt.lat, mt.cpu, mt.tls) :
     a \in {"p2p", "P2P", "sfu"}, v \in {1, 5}, l \in {0, 5},
     mt \in MetricSamples}

(* successful records of the legibility analysis (5 viewers, no loss) *)
RecsTls ==
  {Rec(a, 5, 0, b, TRUE, TRUE, 100, 20, SampleTls(a, b)) :
     a \in {"P2P", "SFU"}, b \in Bandwidths}

(* rows of a results.csv with one numeric cell that is no number *)
BaseRows == {Rec("p2p", 5, 0, "5mbit", TRUE, TRUE, 100, 20, 1),
             Rec("sfu", 1, 5, "5mbit", TRUE, TRUE, 150, 30, 3)}

RecsBad ==
  BaseRows \cup {[r EXCEPT ![c] = NonNumeric] : r \in BaseRows, c \in NumericCols}

(* records of one group whose values differ by the whole precision of a
   floating-point number *)
RecsRound ==
  {Rec("p2p", 5, 0, "5mbit", TRUE, TRUE, x, x, x) : x \in {1, 2^MantissaBits}}

SeqsUpTo(S, n) == UNION {[1..k -> S] : k \in 0..n}

WellFormedInputs ==
  SeqsUpTo(RecsFlags, MaxRecs) \cup SeqsUpTo(RecsDims, MaxRecs)
    \cup SeqsUpTo(RecsTls, MaxTlsRecs) \cup SeqsUpTo(RecsRound, MaxRoundRecs)

CsvOnlyInputs == WellFormedInputs \cup SeqsUpTo(RecsBad, MaxRecs)

(***************************************************************************)
(* String helpers                                                          *)
(***************************************************************************)
Upper(s) == CASE s = "p2p" -> "P2P" [] s = "sfu" -> "SFU" [] OTHER -> s

Lower(s) == CASE s = "P2P" -> "p2p" [] s = "SFU" -> "sfu" [] OTHER -> s

NoSummary == [computed |-> FALSE]

(* no exception has left a stage *)
NoException == [at |-> "none", exc |-> "none"]

Init ==
  /\ prog \in {"analyze", "visualize"}
  /\ csvExists \in BOOLEAN
  /\ jsonExists \in BOOLEAN
  /\ input \in (IF ~csvExists /\ ~jsonExists THEN {<<>>}
                ELSE IF jsonExists THEN WellFormedInputs
                ELSE CsvOnlyInputs)
  /\ resultsDirExists \in BOOLEAN
  /\ vizDirExists \in BOOLEAN
  /\ (csvExists \/ jsonExists \/ vizDirExists) => resultsDirExists
  /\ pc = (IF prog = "analyze" THEN "init" ELSE "start")
  /\ created = FALSE
  /\ raised = NoException
  /\ readFrom = "none"
  /\ loaded = FALSE
  /\ data = <<>>
  /\ files = {}
  /\ truncated = {}
  /\ skipped = {}
  /\ cpuAgg = {}
  /\ latencyAgg = {}
  /\ tlsAgg = {}
  /\ tlsBars = {}
  /\ summary = NoSummary
  /\ exitCode = -1

(***************************************************************************)
(* Aggregation helpers                                                     *)
(***************************************************************************)
Abs(x) == IF x < 0 THEN 0 - x ELSE x

(* the distance of neighbouring floating-point numbers at magnitude a *)
RECURSIVE Ulp(_)
Ulp(a) == IF a < 2^MantissaBits THEN 1 ELSE 2 * Ulp(a \div 2)

(* the result of a floating-point operation: the exact value x rounded to
   MantissaBits significant bits, a tie to the even mantissa *)
Fl(x) ==
  LET a == Abs(x)
      q == Ulp(a)
      m == a \div q
      r == a % q
      up == 2 * r > q \/ (2 * r = q /\ m % 2 = 1)
      v == (IF up THEN m + 1 ELSE m) * q
  IN IF x < 0 THEN 0 - v ELSE v

(* the sum numpy computes of fewer than eight values: one floating-point
   addition per value, in the order of the rows *)
RECURSIVE SumOver(_, _, _)
SumOver(rows, I, col) ==
  IF I = {} THEN 0
  ELSE LET i == CHOOSE j \in I : \A k \in I : k <= j
       IN Fl(SumOver(rows, I \ {i}, col) + rows[i][col])

(* the Kahan summation of pandas' group_mean, in the order of the rows:
   y = val - compensation; t = sumx + y; compensation = t - sumx - y *)
RECURSIVE Kahan(_, _, _)
Kahan(rows, I, col) ==
  IF I = {} THEN [sumx |-> 0, compensation |-> 0]
  ELSE LET i == CHOOSE j \in I : \A k \in I : k <= j
           before == Kahan(rows, I \ {i}, col)
           y == Fl(rows[i][col] - before.compensation)
           t == Fl(before.sumx + y)
       IN [sumx |-> t, compensation |-> Fl(Fl(t - before.sumx) - y)]

(* a mean that divides by one more than the number of values *)
group_meanOffByOne(rows, I, col) ==
  LET valid == {i \in I : rows[i][col] # NaN}
  IN [sum |-> Kahan(rows, valid, col).sumx, n |-> Cardinality(valid) + 1]

(* pandas GroupBy.mean: NaN cells are skipped *)
group_mean(rows, I, col) ==
  LET valid == {i \in I : rows[i][col] # NaN}
  IN [sum |-> Kahan(rows, valid, col).sumx, n |-> Cardinality(valid)]

(* pandas Series.mean: NaN cells are skipped *)
SeriesMean(rows, I, col) ==
  LET valid == {i \in I : rows[i][col] # NaN}
  IN [sum |-> SumOver(rows, valid, col), n |-> Cardinality(valid)]

(* numpy.mean of a list; of the empty list it is nan *)
NpMean(rows, I, col) ==
  [sum |-> SumOver(rows, I, col), n |-> Cardinality(I)]

(* a column of read_csv is of dtype object, all its cells text, as soon as
   one cell is no number *)
IsObject(rows, c) == \E i \in DOMAIN rows : rows[i][c] = NonNumeric

(* the text of a cell is an integer literal *)
IntegerText(c, v) ==
  /\ v # NonNumeric
  /\ v # NaN
  /\ (c = "packetLoss" => v = 0)

(* a column of dtype int64 *)
IsInt64(rows, c) ==
  /\ ~IsObject(rows, c)
  /\ \A i \in DOMAIN rows : IntegerText(c, rows[i][c])

(* self.data[self.data[c] == v]: no text cell equals a number *)
EqualTo(rows, c, v) ==
  IF IsObject(rows, c) THEN {} ELSE {i \in DOMAIN rows : rows[i][c] = v}

(* data.groupby(['architecture', keyCol])[valCol].mean() *)
GroupByMean(rows, I, keyCol, valCol) ==
  {[arch |-> rows[i].architecture, key |-> rows[i][keyCol],
    mean |-> group_mean(rows,
                        {j \in I : /\ rows[j].architecture = rows[i].architecture
                                   /\ rows[j][keyCol] = rows[i][keyCol]},
                        valCol)] : i \in I}

(* the p2p_data / sfu_data split of create_visualizations.py *)
Series(item) == IF Lower(item.architecture) = "p2p" THEN "P2P" ELSE "SFU"

(* the two defaultdict(list) and the np.mean over each of their keys *)
DefaultDictMean(rows, I, keyCol, valCol) ==
  {[arch |-> Series(rows[i]), key |-> rows[i][keyCol],
    mean |-> NpMean(rows,
                    {j \in I : /\ Series(rows[j]) = Series(rows[i])
                               /\ rows[j][keyCol] = rows[i][keyCol]},
                    valCol)] : i \in I}

bandwidth_order == <<"1mbit", "2mbit", "5mbit">>

bandwidthNum(b) == CASE b = "1mbit" -> 1 [] b = "2mbit" -> 2 [] OTHER -> 5

(***************************************************************************)
(* Loading                                                                 *)
(***************************************************************************)
(* one line of results.csv: a result without metrics has empty cells *)
CsvRow(r) ==
  [architecture |-> r.architecture, numViewers |-> r.numViewers,
   packetLoss |-> r.packetLoss, bandwidth |-> r.bandwidth,
   avgLatency |-> IF r.metrics THEN r.avgLatency ELSE NaN,
   avgCpu |-> IF r.metrics THEN r.avgCpu ELSE NaN,
   avgTls |-> IF r.metrics THEN r.avgTls ELSE NaN]

(* pd.read_csv: every line is a row of the frame *)
read_csv(inp) == [i \in 1..Len(inp) |-> CsvRow(inp[i])]

(* the filter of the JSON branch *)
Usable(result) == result.success /\ result.metrics

JsonRecord(result) ==
  [architecture |-> Upper(result.architecture),
   numViewers |-> result.numViewers, packetLoss |-> result.packetLoss,
   bandwidth |-> result.bandwidth, avgLatency |-> result.avgLatency,
   avgCpu |-> result.avgCpu, avgTls |-> result.avgTls]

JsonRecords(results) ==
  LET kept == SelectSeq(results, Usable)
  IN [i \in 1..Len(kept) |-> JsonRecord(kept[i])]

(* int(...) / float(...) of a cell raises ValueError *)
ConversionFails(row) ==
  \E c \in NumericCols : row[c] = NonNumeric \/ row[c] = NaN

(***************************************************************************)
(* analyze.py                                                              *)
(***************************************************************************)
(* run_analysis catches the exception and returns False; main exits 1 *)
AnalyzeFail == pc' = "exit" /\ exitCode' = 1

(* an exception nothing catches: traceback, exit status 1 *)
Traceback == pc' = "exit" /\ exitCode' = 1

Raise(exc) == raised' = [at |-> pc, exc |-> exc]

(* self.output_dir.mkdir(exist_ok=True): the directory exists afterwards *)
mkdir == TRUE

(* DataAnalyzer(results_dir) in main, outside run_analysis's try: mkdir has
   no parents=True and raises FileNotFoundError without the results
   directory *)
DataAnalyzer_init ==
  /\ prog = "analyze"
  /\ pc = "init"
  /\ IF resultsDirExists
     THEN /\ vizDirExists' = mkdir
          /\ created' = (~vizDirExists /\ mkdir)
          /\ pc' = "start"
          /\ UNCHANGED <<exitCode, raised>>
     ELSE /\ Traceback
          /\ Raise("FileNotFoundError")
          /\ UNCHANGED <<vizDirExists, created>>
  /\ UNCHANGED <<inputVars, resultsDirExists, readFrom, loaded, data, files,
                 truncated, skipped, cpuAgg, latencyAgg, tlsAgg, tlsBars,
                 summary>>

(* the file read when results.json is looked for first *)
SourceJsonFirst ==
  IF jsonExists THEN "json" ELSE IF csvExists THEN "csv" ELSE "none"

(* if csv_file.exists() ... elif json_file.exists() ... else *)
Source ==
  IF csvExists THEN "csv" ELSE IF jsonExists THEN "json" ELSE "none"

(* an emptiness test that is never true *)
emptyNever(rows) == FALSE

(* self.data.empty / not data *)
empty(rows) == Len(rows) = 0

DataAnalyzer_load_data ==
  /\ prog = "analyze"
  /\ pc = "start"
  /\ IF Source = "csv"
     THEN /\ readFrom' = "csv"
          /\ data' = read_csv(input)
          /\ loaded' = TRUE
          /\ UNCHANGED raised
          /\ IF empty(read_csv(input)) THEN AnalyzeFail
             ELSE pc' = "cpu" /\ UNCHANGED exitCode
     ELSE IF Source = "json"
     THEN /\ readFrom' = "json"
          /\ data' = JsonRecords(input)
          /\ IF Len(JsonRecords(input)) = 0
             THEN (* a frame without columns: line 70 raises KeyError *)
                  AnalyzeFail /\ Raise("KeyError") /\ UNCHANGED loaded
             ELSE /\ pc' = "cpu"
                  /\ loaded' = TRUE
                  /\ UNCHANGED <<exitCode, raised>>
     ELSE /\ AnalyzeFail
          /\ Raise("FileNotFoundError")
          /\ UNCHANGED <<readFrom, loaded, data>>
  /\ UNCHANGED <<inputVars, resultsDirExists, vizDirExists, created,
                 files, truncated,
                 skipped, cpuAgg, latencyAgg, tlsAgg, tlsBars, summary>>

(* plt.savefig(output_path): the image is written into the output
   directory, FileNotFoundError without it *)
AnalyzerSave(file, next) ==
  IF vizDirExists
  THEN /\ files' = files \cup {file}
       /\ pc' = next
       /\ UNCHANGED <<exitCode, raised>>
  ELSE /\ AnalyzeFail
       /\ Raise("FileNotFoundError")
       /\ UNCHANGED files

generate_cpu_utilization_chart ==
  /\ prog = "analyze"
  /\ pc = "cpu"
  /\ LET cpu_data == EqualTo(data, "packetLoss", 0)
     IN IF cpu_data = {}
        THEN /\ skipped' = skipped \cup {CPU_PNG}
             /\ pc' = "latency"
             /\ UNCHANGED <<cpuAgg, files, exitCode, raised>>
        ELSE IF IsObject(data, "avgCpu")
        THEN /\ AnalyzeFail
             /\ Raise("TypeError")
             /\ UNCHANGED <<cpuAgg, files, skipped>>
        ELSE /\ cpuAgg' = GroupByMean(data, cpu_data, "numViewers", "avgCpu")
             /\ AnalyzerSave(CPU_PNG, "latency")
             /\ UNCHANGED skipped
  /\ UNCHANGED <<inputVars, resultsDirExists, vizDirExists, created,
                 readFrom, loaded,
                 data, truncated, latencyAgg, tlsAgg, tlsBars, summary>>

generate_latency_vs_loss_chart ==
  /\ prog = "analyze"
  /\ pc = "latency"
  /\ LET latency_data == EqualTo(data, "numViewers", 5)
     IN IF latency_data = {}
        THEN /\ skipped' = skipped \cup {LATENCY_PNG}
             /\ pc' = "tls"
             /\ UNCHANGED <<latencyAgg, files, exitCode, raised>>
        ELSE IF IsObject(data, "avgLatency")
        THEN /\ AnalyzeFail
             /\ Raise("TypeError")
             /\ UNCHANGED <<latencyAgg, files, skipped>>
        ELSE /\ latencyAgg' =
                  GroupByMean(data, latency_data, "packetLoss", "avgLatency")
             /\ AnalyzerSave(LATENCY_PNG, "tls")
             /\ UNCHANGED skipped
  /\ UNCHANGED <<inputVars, resultsDirExists, vizDirExists, created,
                 readFrom, loaded,
                 data, truncated, cpuAgg, tlsAgg, tlsBars, summary>>

(* rank of tier t among the tiers S, by sort_values('bandwidthNum') *)
Rank(t, S) == Cardinality({u \in S : bandwidthNum(u) <= bandwidthNum(t)})

tiersOf(grouped, a) == {g.key : g \in {h \in grouped : h.arch = a}}

(* plt.bar(x + offset, arch_data['avgTls'], width) for every architecture,
   x = np.arange(K): the heights are broadcast against the K positions, so
   a single height is drawn at every position; any other count that is not
   K raises ValueError.  Position p carries the p-th tick label. *)
BarsBroadcast(grouped) ==
  LET K == Cardinality({g.key : g \in grouped})
  IN \A g \in grouped : Cardinality(tiersOf(grouped, g.arch)) \in {1, K}

AnalyzerBars(grouped) ==
  LET K == Cardinality({g.key : g \in grouped})
  IN UNION {
       {[arch |-> g.arch, pos |-> p, value |-> g.mean] :
          p \in IF Cardinality(tiersOf(grouped, g.arch)) = 1
                THEN 1..K
                ELSE {Rank(g.key, tiersOf(grouped, g.arch))}} : g \in grouped}

generate_tls_vs_bandwidth_chart ==
  /\ prog = "analyze"
  /\ pc = "tls"
  /\ LET tls_data == EqualTo(data, "numViewers", 5)
                       \cap EqualTo(data, "packetLoss", 0)
         tls_grouped == GroupByMean(data, tls_data, "bandwidth", "avgTls")
         K == Cardinality({g.key : g \in tls_grouped})
     IN IF tls_data = {}
        THEN /\ skipped' = skipped \cup {TLS_PNG}
             /\ pc' = "summary"
             /\ UNCHANGED <<tlsAgg, tlsBars, files, exitCode, raised>>
        ELSE IF IsObject(data, "avgTls")
        THEN /\ AnalyzeFail
             /\ Raise("TypeError")
             /\ UNCHANGED <<tlsAgg, tlsBars, files, skipped>>
        ELSE IF ~BarsBroadcast(tls_grouped) \/ K # Len(bandwidth_order)
        THEN (* plt.bar or plt.xticks raises ValueError *)
             /\ tlsAgg' = tls_grouped
             /\ AnalyzeFail
             /\ Raise("ValueError")
             /\ UNCHANGED <<tlsBars, files, skipped>>
        ELSE /\ tlsAgg' = tls_grouped
             /\ tlsBars' = AnalyzerBars(tls_grouped)
             /\ AnalyzerSave(TLS_PNG, "summary")
             /\ UNCHANGED skipped
  /\ UNCHANGED <<inputVars, resultsDirExists, vizDirExists, created,
                 readFrom, loaded,
                 data, truncated, cpuAgg, latencyAgg, summary>>

(* the architecture_comparison block; the field tests is 'tests' here and
   'test_count' in create_visualizations.py *)
AnalyzerSummary(rows) ==
  LET archs == {rows[i].architecture : i \in DOMAIN rows}
      of(a) == {i \in DOMAIN rows : rows[i].architecture = a}
  IN [computed |-> TRUE,
      total_tests |-> Len(rows),
      architectures |-> archs,
      per_arch |-> [a \in archs |->
                      [tests |-> Cardinality(of(a)),
                       avg_cpu |-> SeriesMean(rows, of(a), "avgCpu"),
                       avg_latency |-> SeriesMean(rows, of(a), "avgLatency"),
                       avg_tls |-> SeriesMean(rows, of(a), "avgTls")]]]

(* json.dump meets a numpy.int64 in viewer_counts or packet_loss_rates (the
   unique values of an int64 column) and raises TypeError *)
JsonSerializable(rows) ==
  ~IsInt64(rows, "numViewers") /\ ~IsInt64(rows, "packetLoss")

generate_summary_statistics ==
  /\ prog = "analyze"
  /\ pc = "summary"
  /\ IF \E c \in {"avgCpu", "avgLatency", "avgTls"} : IsObject(data, c)
     THEN (* the mean of a column of text raises TypeError *)
          /\ AnalyzeFail
          /\ Raise("TypeError")
          /\ UNCHANGED <<summary, files, truncated>>
     ELSE IF ~vizDirExists
     THEN (* open(summary_file, 'w') *)
          /\ summary' = AnalyzerSummary(data)
          /\ AnalyzeFail
          /\ Raise("FileNotFoundError")
          /\ UNCHANGED <<files, truncated>>
     ELSE /\ summary' = AnalyzerSummary(data)
          /\ files' = files \cup {SUMMARY_JSON}
          /\ IF JsonSerializable(data)
             THEN /\ pc' = "exit"
                  /\ exitCode' = 0
                  /\ UNCHANGED <<truncated, raised>>
             ELSE /\ truncated' = truncated \cup {SUMMARY_JSON}
                  /\ AnalyzeFail
                  /\ Raise("TypeError")
  /\ UNCHANGED <<inputVars, resultsDirExists, vizDirExists, created,
                 readFrom, loaded,
                 data, skipped, cpuAgg, latencyAgg, tlsAgg, tlsBars>>

(***************************************************************************)
(* create_visualizations.py                                                *)
(***************************************************************************)
load_data ==
  /\ prog = "visualize"
  /\ pc = "start"
  /\ IF ~csvExists
     THEN (* returns []; main prints and returns *)
          /\ pc' = "exit"
          /\ exitCode' = 0
          /\ loaded' = TRUE
          /\ UNCHANGED <<readFrom, data, raised>>
     ELSE IF \E i \in DOMAIN input : ConversionFails(CsvRow(input[i]))
     THEN (* ValueError leaves main *)
          /\ readFrom' = "csv"
          /\ Traceback
          /\ Raise("ValueError")
          /\ UNCHANGED <<loaded, data>>
     ELSE /\ readFrom' = "csv"
          /\ data' = read_csv(input)
          /\ loaded' = TRUE
          /\ UNCHANGED raised
          /\ IF empty(read_csv(input))
             THEN pc' = "exit" /\ exitCode' = 0
             ELSE pc' = "cpu" /\ UNCHANGED exitCode
  /\ UNCHANGED <<inputVars, resultsDirExists, vizDirExists, created,
                 files, truncated,
                 skipped, cpuAgg, latencyAgg, tlsAgg, tlsBars, summary>>

(* plt.savefig / open(..., 'w') into results/visualizations: the file is
   written when the directory exists, FileNotFoundError leaves main
   otherwise *)
VisualizerSave(dirExists, file, next) ==
  IF dirExists
  THEN /\ files' = files \cup {file}
       /\ pc' = next
       /\ UNCHANGED <<exitCode, raised>>
  ELSE /\ Traceback
       /\ Raise("FileNotFoundError")
       /\ UNCHANGED files

(* the directory is not made *)
makedirsSkipped == vizDirExists

(* os.makedirs('results/visualizations', exist_ok=True) *)
makedirs == TRUE

create_cpu_utilization_chart ==
  /\ prog = "visualize"
  /\ pc = "cpu"
  /\ LET filtered_data == {i \in DOMAIN data : data[i].packetLoss = 0}
     IN cpuAgg' = DefaultDictMean(data, filtered_data, "numViewers", "avgCpu")
  /\ vizDirExists' = makedirs
  /\ created' = (~vizDirExists /\ makedirs)
  /\ VisualizerSave(makedirs, CPU_PNG, "latency")
  /\ UNCHANGED <<inputVars, resultsDirExists, readFrom, loaded, data,
                 truncated, skipped, latencyAgg, tlsAgg, tlsBars, summary>>

create_latency_vs_loss_chart ==
  /\ prog = "visualize"
  /\ pc = "latency"
  /\ LET filtered_data == {i \in DOMAIN data : data[i].numViewers = 5}
     IN latencyAgg' =
          DefaultDictMean(data, filtered_data, "packetLoss", "avgLatency")
  /\ VisualizerSave(vizDirExists, LATENCY_PNG, "tls")
  /\ UNCHANGED <<inputVars, resultsDirExists, vizDirExists, created,
                 readFrom, loaded,
                 data, truncated, skipped, cpuAgg, tlsAgg, tlsBars, summary>>

(* [np.mean(p2p_data[bw]) for bw in bandwidth_order], and the same for sfu *)
VisualizerBars(rows, I) ==
  {[arch |-> s, pos |-> p,
    value |-> NpMean(rows,
                     {i \in I : /\ Series(rows[i]) = s
                                /\ rows[i].bandwidth = bandwidth_order[p]},
                     "avgTls")] :
     s \in {"P2P", "SFU"}, p \in DOMAIN bandwidth_order}

create_tls_vs_bandwidth_chart ==
  /\ prog = "visualize"
  /\ pc = "tls"
  /\ LET filtered_data ==
           {i \in DOMAIN data : data[i].numViewers = 5 /\ data[i].packetLoss = 0}
     IN /\ tlsAgg' = DefaultDictMean(data, filtered_data, "bandwidth", "avgTls")
        /\ tlsBars' = VisualizerBars(data, filtered_data)
  /\ VisualizerSave(vizDirExists, TLS_PNG, "summary")
  /\ UNCHANGED <<inputVars, resultsDirExists, vizDirExists, created,
                 readFrom, loaded,
                 data, truncated, skipped, cpuAgg, latencyAgg, summary>>

(* the comparison without .lower() *)
ArchIsExact(d, arch) == d.architecture = arch

(* d['architecture'].lower() == arch.lower() *)
ArchIs(d, arch) == Lower(d.architecture) = Lower(arch)

VisualizerSummary(rows) ==
  LET of(a) == {i \in DOMAIN rows : ArchIs(rows[i], a)}
  IN [computed |-> TRUE,
      total_tests |-> Len(rows),
      architectures |-> {"P2P", "SFU"},
      per_arch |-> [a \in {"P2P", "SFU"} |->
                      [tests |-> Cardinality(of(a)),
                       avg_cpu |-> NpMean(rows, of(a), "avgCpu"),
                       avg_latency |-> NpMean(rows, of(a), "avgLatency"),
                       avg_tls |-> NpMean(rows, of(a), "avgTls")]]]

create_summary_stats ==
  /\ prog = "visualize"
  /\ pc = "summary"
  /\ summary' = VisualizerSummary(data)
  /\ IF vizDirExists
     THEN /\ files' = files \cup {SUMMARY_JSON}
          /\ pc' = "exit"
          /\ exitCode' = 0
          /\ UNCHANGED raised
     ELSE /\ Traceback
          /\ Raise("FileNotFoundError")
          /\ UNCHANGED files
  /\ UNCHANGED <<inputVars, resultsDirExists, vizDirExists, created,
                 readFrom, loaded,
                 data, truncated, skipped, cpuAgg, latencyAgg, tlsAgg,
                 tlsBars>>

Next ==
  \/ DataAnalyzer_init
  \/ DataAnalyzer_load_data
  \/ generate_cpu_utilization_chart
  \/ generate_latency_vs_loss_chart
  \/ generate_tls_vs_bandwidth_chart
  \/ generate_summary_statistics
  \/ load_data
  \/ create_cpu_utilization_chart
  \/ create_latency_vs_loss_chart
  \/ create_tls_vs_bandwidth_chart
  \/ create_summary_stats

Spec == Init /\ [][Next]_vars

(***************************************************************************)
(* Properties                                                              *)
(***************************************************************************)
Charts == {CPU_PNG, LATENCY_PNG, TLS_PNG}

(* the records of the input with a true success flag and a metrics block *)
UsableCount(inp) ==
  Cardinality({i \in DOMAIN inp : inp[i].success /\ inp[i].metrics})

(* no input file the program recognises *)
NoSource == IF prog = "analyze" THEN ~csvExists /\ ~jsonExists ELSE ~csvExists

(* a numeric cell of the input that is no number *)
Malformed(inp) ==
  \E i \in DOMAIN inp : \E c \in NumericCols : inp[i][c] = NonNumeric

(* the rows of the loaded data a chart's filter selects *)
Selected(chart) ==
  CASE chart = CPU_PNG -> {i \in DOMAIN data : data[i].packetLoss = 0}
    [] chart = LATENCY_PNG -> {i \in DOMAIN data : data[i].numViewers = 5}
    [] OTHER -> {i \in DOMAIN data :
                   data[i].numViewers = 5 /\ data[i].packetLoss = 0}

(* the mean a single value has *)
MeanOfOne(v) == IF v = NaN THEN [sum |-> 0, n |-> 0] ELSE [sum |-> v, n |-> 1]

(* the rows of group (arch, key) of an analysis, labels compared without case *)
GroupRows(chart, keyCol, arch, key) ==
  {i \in Selected(chart) :
     Lower(data[i].architecture) = Lower(arch) /\ data[i][keyCol] = key}

(* C1: whenever the loader has read a file and returned, the number of
   loaded records is the number of input records with a true success flag
   and a metrics block. *)
C1_LoadedAreTheUsable ==
  (loaded /\ readFrom # "none") => Len(data) = UsableCount(input)

(* C2: with no recognised input source, or an input without any usable
   record, no output file is ever written. *)
C2_NoOutputWithoutUsableInput ==
  (NoSource \/ UsableCount(input) = 0) => files = {}

(* C3: with no recognised input source, or an input without any usable
   record, the process does not end with exit status 0. *)
C3_NonZeroExitWithoutUsableInput ==
  (pc = "exit" /\ (NoSource \/ UsableCount(input) = 0)) => exitCode # 0

(* C4: for a loaded, non-empty dataset of well-formed records, a chart whose
   filter selects no record writes no image; at the end of the run it was
   skipped with a warning and the summary statistics file is complete. *)
C4_EmptyChartSkipped ==
  \A chart \in Charts :
    (loaded /\ Len(data) > 0 /\ ~Malformed(input) /\ Selected(chart) = {}) =>
      /\ chart \notin files
      /\ (pc = "exit" =>
            /\ chart \in skipped
            /\ SUMMARY_JSON \in files \ truncated)

RECURSIVE SumTests(_, _)
SumTests(per_arch, keys) ==
  IF keys = {} THEN 0
  ELSE LET k == CHOOSE x \in keys : TRUE
       IN per_arch[k].tests + SumTests(per_arch, keys \ {k})

(* C5: in the summary statistics, the per-architecture record counts add up
   to total_tests, which is the number of loaded records. *)
C5_CountsSumToTotal ==
  summary.computed =>
    /\ SumTests(summary.per_arch, DOMAIN summary.per_arch) = summary.total_tests
    /\ summary.total_tests = Len(data)

(* a summary over two records of two architectures, one label in lower case *)
C5_Witness ==
  /\ summary.computed
  /\ Len(data) = 2
  /\ \E i, j \in DOMAIN data :
       /\ data[i].architecture = "p2p"
       /\ Lower(data[j].architecture) = "sfu"

(* C6: the keys of the per-architecture block of the summary are the
   architectures (labels compared without case) of the loaded records:
   every architecture with a record is a key, and no key is an architecture
   without a record. *)
C6_KeysAreTheArchitectures ==
  summary.computed =>
    /\ \A i \in DOMAIN data : \E k \in DOMAIN summary.per_arch :
         Lower(k) = Lower(data[i].architecture)
    /\ \A k \in DOMAIN summary.per_arch : \E i \in DOMAIN data :
         Lower(data[i].architecture) = Lower(k)

SingletonMean(agg, chart, keyCol, valCol) ==
  /\ \A g \in agg :
       LET rows == GroupRows(chart, keyCol, g.arch, g.key)
       IN Cardinality(rows) = 1 =>
            \A i \in rows : g.mean = MeanOfOne(data[i][valCol])
  /\ (agg # {} \/ chart \in files) =>
       \A i \in Selected(chart) : \E g \in agg :
         /\ Lower(g.arch) = Lower(data[i].architecture)
         /\ g.key = data[i][keyCol]

ScenarioInput ==
  <<Rec("p2p", 5, 0, "5mbit", TRUE, TRUE, 100, 20, 1),
    Rec("sfu", 5, 0, "5mbit", TRUE, TRUE, 150, 30, 3)>>

(* C7: in each of the three aggregations a group with exactly one matching
   record has that record's value as its mean, and every selected record
   has its group in the result; for the two records (p2p, 5 viewers, no
   loss, cpu 20) and (sfu, 5 viewers, no loss, cpu 30) the CPU aggregation
   is 20 for p2p and 30 for sfu at 5 viewers and nothing else. *)
C7_MeanOfOneRecord ==
  /\ SingletonMean(cpuAgg, CPU_PNG, "numViewers", "avgCpu")
  /\ SingletonMean(latencyAgg, LATENCY_PNG, "packetLoss", "avgLatency")
  /\ SingletonMean(tlsAgg, TLS_PNG, "bandwidth", "avgTls")
  /\ (input = ScenarioInput /\ CPU_PNG \in files) =>
       {<<Lower(g.arch), g.key, g.mean>> : g \in cpuAgg}
         = {<<"p2p", 5, [sum |-> 20, n |-> 1]>>,
            <<"sfu", 5, [sum |-> 30, n |-> 1]>>}

(* the CPU chart of the two-record scenario was drawn *)
C7_Witness ==
  /\ input = ScenarioInput
  /\ CPU_PNG \in files
  /\ Cardinality(cpuAgg) = 2

(* C8: in the legibility chart every bar stands at the position of its own
   tier, in the order 1mbit, 2mbit, 5mbit: the value drawn for an
   architecture at position p is the mean of that architecture's selected
   records of tier bandwidth_order[p]. *)
C8_BarsAtTheirTier ==
  TLS_PNG \in files =>
    \A b \in tlsBars :
      LET rows == GroupRows(TLS_PNG, "bandwidth", b.arch, bandwidth_order[b.pos])
      IN b.value = [sum |-> SumOver(data, rows, "avgTls"),
                    n |-> Cardinality(rows)]

SameGroupWhateverCase(agg) ==
  \A g, h \in agg : Lower(g.arch) = Lower(h.arch) => g.arch = h.arch

(* C9: records whose architecture labels differ only in letter case are in
   the same group of every chart aggregation and of the per-architecture
   summary. *)
C9_CaseInsensitiveGroups ==
  /\ SameGroupWhateverCase(cpuAgg)
  /\ SameGroupWhateverCase(latencyAgg)
  /\ SameGroupWhateverCase(tlsAgg)
  /\ summary.computed =>
       \A k, l \in DOMAIN summary.per_arch : Lower(k) = Lower(l) => k = l

(* C10: a run over an input with a non-numeric cell in a numeric column
   writes no output and does not end with exit status 0. *)
C10_MalformedIsFatal ==
  (~NoSource /\ Malformed(input)) =>
    /\ files = {}
    /\ ~summary.computed
    /\ (pc = "exit" => exitCode # 0)

(* the stages of a run in their order *)
StageNo(p) ==
  CASE p = "init" -> 0
    [] p = "start" -> 1
    [] p = "cpu" -> 2
    [] p = "latency" -> 3
    [] p = "tls" -> 4
    [] p = "summary" -> 5
    [] OTHER -> 6

(* the fixed-name output of a stage *)
OwnFile(p) ==
  CASE p = "cpu" -> {CPU_PNG}
    [] p = "latency" -> {LATENCY_PNG}
    [] p = "tls" -> {TLS_PNG}
    [] p = "summary" -> {SUMMARY_JSON}
    [] OTHER -> {}

NonEmptyGroups(agg, chart, keyCol) ==
  \A g \in agg : GroupRows(chart, keyCol, g.arch, g.key) # {}

(* C12: every group of the three aggregations has a matching record; in the
   legibility chart no bar is drawn for an (architecture, tier) without a
   record, and over well-formed records with a non-empty filter the
   legibility step raises no exception. *)
C12_EmptyGroupsOmitted ==
  /\ NonEmptyGroups(cpuAgg, CPU_PNG, "numViewers")
  /\ NonEmptyGroups(latencyAgg, LATENCY_PNG, "packetLoss")
  /\ NonEmptyGroups(tlsAgg, TLS_PNG, "bandwidth")
  /\ \A b \in tlsBars :
       /\ b.value.n # 0
       /\ GroupRows(TLS_PNG, "bandwidth", b.arch, bandwidth_order[b.pos]) # {}
  /\ (loaded /\ ~Malformed(input) /\ Selected(TLS_PNG) # {}) =>
       raised.at # "tls"

(* C13: a written output file lies in an existing output directory, no
   chart or summary write fails for want of the directory, and a run
   without an input file ends with no output file opened. *)
C13_DirectoryBeforeWrite ==
  /\ files # {} => vizDirExists
  /\ raised.exc = "FileNotFoundError" => raised.at \in {"init", "start"}
  /\ (NoSource /\ pc = "exit") => files = {}

(* the run made the output directory, skipped a chart and wrote the summary *)
C13_Witness ==
  /\ created
  /\ skipped # {}
  /\ SUMMARY_JSON \in files

ForwardState ==
  /\ pc \in {"cpu", "latency", "tls", "summary"} => loaded /\ Len(data) >= 1
  /\ pc = "summary" => Charts \subseteq files \cup skipped
  /\ files \subseteq UNION {OwnFile(p) : p \in {q \in {"cpu", "latency", "tls", "summary"} :
                                                 StageNo(q) < StageNo(pc)}}

ForwardStep ==
  /\ StageNo(pc') > StageNo(pc)
  /\ pc' # "exit" => StageNo(pc') = StageNo(pc) + 1
  /\ files \subseteq files'
  /\ files' \ files \subseteq OwnFile(pc)
  /\ skipped' \ skipped \subseteq OwnFile(pc)

(* C14: every step of a run moves to the next stage of the order load, CPU
   chart, latency chart, legibility chart, summary, or ends the run; a
   chart or summary stage is entered only with a loaded dataset of at
   least one record; a step writes at most the one file of its own stage;
   the summary stage is entered only with every chart written or
   skipped. *)
C14_SingleForwardPass == []ForwardState /\ [][ForwardStep]_vars

(* a run of analyze.py that skipped a chart and ended after its summary *)
C14_Witness ==
  /\ prog = "analyze"
  /\ pc = "exit"
  /\ skipped # {}
  /\ SUMMARY_JSON \in files
  /\ exitCode = 0

(* C15: once DataAnalyzer.load_data has run, with results.csv present the
   data are the rows of the CSV file as they stand and results.json was
   not read; the filtered, upper-cased records of results.json are the data
   only when results.csv is absent; FileNotFoundError is raised by the
   loader exactly when both files are absent. *)
C15_CsvBeforeJson ==
  (prog = "analyze" /\ StageNo(pc) > 1 /\ raised.at # "init") =>
    /\ csvExists => readFrom = "csv" /\ data = read_csv(input)
    /\ readFrom = "json" => ~csvExists /\ jsonExists
    /\ (~csvExists /\ jsonExists) => readFrom = "json"
    /\ raised = [at |-> "start", exc |-> "FileNotFoundError"]
         <=> (~csvExists /\ ~jsonExists)

(* both files exist, their contents differ, and the loader has returned *)
C15_Witness ==
  /\ prog = "analyze"
  /\ csvExists
  /\ jsonExists
  /\ loaded
  /\ read_csv(input) # JsonRecords(input)

(* the dataset with its records in the order p *)
Permuted(rows, p) == [i \in DOMAIN rows |-> rows[p[i]]]

(* the aggregation of a chart as the running program computes it of rows *)
Aggregation(chart, rows) ==
  IF prog = "analyze"
  THEN CASE chart = CPU_PNG ->
              GroupByMean(rows, EqualTo(rows, "packetLoss", 0),
                          "numViewers", "avgCpu")
         [] chart = LATENCY_PNG ->
              GroupByMean(rows, EqualTo(rows, "numViewers", 5),
                          "packetLoss", "avgLatency")
         [] OTHER ->
              GroupByMean(rows, EqualTo(rows, "numViewers", 5)
                                  \cap EqualTo(rows, "packetLoss", 0),
                          "bandwidth", "avgTls")
  ELSE CASE chart = CPU_PNG ->
              DefaultDictMean(rows, {i \in DOMAIN rows : rows[i].packetLoss = 0},
                              "numViewers", "avgCpu")
         [] chart = LATENCY_PNG ->
              DefaultDictMean(rows, {i \in DOMAIN rows : rows[i].numViewers = 5},
                              "packetLoss", "avgLatency")
         [] OTHER ->
              DefaultDictMean(rows,
                              {i \in DOMAIN rows : /\ rows[i].numViewers = 5
                                                   /\ rows[i].packetLoss = 0},
                              "bandwidth", "avgTls")

(* C11: each of the three aggregations a run has computed is the one the
   program computes of every permutation of the loaded records: the same
   group keys and the same mean for every key. *)
C11_OrderIndependent ==
  \A p \in Permutations(DOMAIN data) :
    /\ cpuAgg # {} => Aggregation(CPU_PNG, Permuted(data, p)) = cpuAgg
    /\ latencyAgg # {} =>
         Aggregation(LATENCY_PNG, Permuted(data, p)) = latencyAgg
    /\ tlsAgg # {} => Aggregation(TLS_PNG, Permuted(data, p)) = tlsAgg

====
